---- MODULE Spec2Model ----
(***************************************************************************)
(* Model of the Fathom webhook handler of personal-webhook:                *)
(*   src/src/routes/fathom.ts    route resolution, configuration chain,    *)
(*                               orchestration of the external calls       *)
(*   src/src/services/clickup.ts postTaskComment, createTask               *)
(*   src/src/services/groq.ts    extractTasksFromTranscript                *)
(*                                                                         *)
(* A JavaScript string is a tuple of one-character strings, so that        *)
(* toLowerCase, trim and includes are computed and not assumed.            *)
(***************************************************************************)
EXTENDS Integers, Sequences, FiniteSets, TLC

VARIABLES
  env,                  \* process.env as read by the handler
  payload,              \* req.body
  pc,                   \* position of the handler (which await it is parked on)
  resolvedRoute,        \* const resolvedRoute (fathom.ts:567)
  calls,                \* every call made to postTaskComment / groq / createTask, in order
  inflight,             \* indices of calls whose HTTP request is outstanding
  extracted,            \* let extracted (fathom.ts:609)
  mainTaskId,           \* parentTaskId of createMeetingTasksInClickUp (fathom.ts:446)
  createdSubtasksCount, \* let createdSubtasksCount (fathom.ts:451)
  summaryLog,           \* the 'ClickUp task creation summary' log (fathom.ts:637)
  response              \* what res.status(..).json(..) sent

vars == <<env, payload, pc, resolvedRoute, calls, inflight, extracted,
          mainTaskId, createdSubtasksCount, summaryLog, response>>

----------------------------------------------------------------------------
(* Bounds of the model *)

MaxRoutes == 2
MaxTasks == 2

----------------------------------------------------------------------------
(* JavaScript values *)

Undefined == <<"<undefined>">>
Null == <<"<null>">>

\* !value for a string | undefined | null
Truthy(v) == v # Undefined /\ v # Null /\ v # <<>>

\* a || b
Or(a, b) == IF Truthy(a) THEN a ELSE b

LowerChar(c) ==
  CASE c = "A" -> "a"
    [] c = "B" -> "b"
    [] c = "E" -> "e"
    [] c = "F" -> "f"
    [] c = "L" -> "l"
    [] c = "N" -> "n"
    [] c = "O" -> "o"
    [] c = "S" -> "s"
    [] OTHER -> c

\* String.prototype.toLowerCase
ToLowerCase(s) == [i \in 1..Len(s) |-> LowerChar(s[i])]

IsSpace(c) == c = " "

RECURSIVE TrimStart(_)
TrimStart(s) ==
  IF s = <<>> THEN <<>>
  ELSE IF IsSpace(Head(s)) THEN TrimStart(Tail(s)) ELSE s

RECURSIVE TrimEnd(_)
TrimEnd(s) ==
  IF s = <<>> THEN <<>>
  ELSE IF IsSpace(s[Len(s)]) THEN TrimEnd(SubSeq(s, 1, Len(s) - 1)) ELSE s

\* String.prototype.trim
Trim(s) == TrimEnd(TrimStart(s))

\* value?.trim()
OptTrim(v) == IF v = Undefined THEN Undefined ELSE Trim(v)

\* String.prototype.includes
Includes(field, keyword) ==
  \E i \in 0..(Len(field) - Len(keyword)) :
    SubSeq(field, i + 1, i + Len(keyword)) = keyword

\* Array.prototype.filter
Filter(s, Keep(_)) == SelectSeq(s, Keep)

\* Array.prototype.map
Map(s, F(_)) == [i \in 1..Len(s) |-> F(s[i])]

\* Array.prototype.flatMap
RECURSIVE Flatten(_)
Flatten(ss) == IF ss = <<>> THEN <<>> ELSE Head(ss) \o Flatten(Tail(ss))

FlatMap(s, F(_)) == Flatten(Map(s, F))

\* Array.prototype.join
RECURSIVE Join(_, _)
Join(lines, sep) ==
  IF lines = <<>> THEN <<>>
  ELSE IF Len(lines) = 1 THEN Head(lines)
  ELSE Head(lines) \o sep \o Join(Tail(lines), sep)

\* the sequences over S of length lo..hi
SeqsOf(S, lo, hi) == UNION {[1..n -> S] : n \in lo..hi}

\* Math.min and Math.max of two finite values
MathMin(a, b) == IF a <= b THEN a ELSE b

MathMax(a, b) == IF a >= b THEN a ELSE b

\* Numbers. A finite number is held in tenths (v = 7 is 0.7), the resolution
\* of every threshold and confidence of the model; the values that are no
\* finite number keep v = 0.
Num(v) == [kind |-> "number", v |-> v]
Infinity == [kind |-> "Infinity", v |-> 0]
NegInfinity == [kind |-> "-Infinity", v |-> 0]
NaN == [kind |-> "NaN", v |-> 0]
\* a value whose typeof is not 'number' (undefined, a string, null, ...)
NotANumber == [kind |-> "undefined", v |-> 0]

\* typeof value === 'number'
TypeofNumber(n) == n.kind \in {"number", "Infinity", "-Infinity", "NaN"}

\* Number.isFinite
IsFinite(n) == n.kind = "number"

DecimalDigits == <<"0", "1", "2", "3", "4", "5", "6", "7", "8", "9">>

IsDigit(c) == \E d \in 1..10 : DecimalDigits[d] = c

DigitValue(c) == (CHOOSE d \in 1..10 : DecimalDigits[d] = c) - 1

RECURSIVE DigitsValue(_)
DigitsValue(s) ==
  IF s = <<>> THEN 0
  ELSE 10 * DigitsValue(SubSeq(s, 1, Len(s) - 1)) + DigitValue(s[Len(s)])

AllDigits(s) == \A i \in 1..Len(s) : IsDigit(s[i])

\* Number(string): white space is stripped, the empty string is 0, a decimal
\* literal (sign, digits, at most one point) is its value, Infinity is
\* infinite, anything else is NaN. Fraction digits after the first are cut off.
Number(str) ==
  LET t == Trim(str)
      signed == t # <<>> /\ Head(t) \in {"-", "+"}
      negative == t # <<>> /\ Head(t) = "-"
      body == IF signed THEN Tail(t) ELSE t
      dots == {i \in 1..Len(body) : body[i] = "."}
      dot == IF dots = {} THEN Len(body) + 1 ELSE CHOOSE i \in dots : TRUE
      whole == SubSeq(body, 1, dot - 1)
      fraction == SubSeq(body, dot + 1, Len(body))
      tenths == 10 * DigitsValue(whole)
                + (IF fraction = <<>> THEN 0 ELSE DigitValue(Head(fraction)))
  IN IF t = <<>> THEN Num(0)
     ELSE IF body = <<"I", "n", "f", "i", "n", "i", "t", "y">>
     THEN (IF negative THEN NegInfinity ELSE Infinity)
     ELSE IF /\ Cardinality(dots) <= 1
             /\ AllDigits(whole) /\ AllDigits(fraction)
             /\ Len(whole) + Len(fraction) > 0
     THEN Num(IF negative THEN 0 - tenths ELSE tenths)
     ELSE NaN

\* Math.max(0, Math.min(1, value)) of a finite value
Clamp01(n) == Num(MathMax(0, MathMin(10, n.v)))

----------------------------------------------------------------------------
(* Route table: parseMeetingRoutes, normalize, resolveClickUpRoute *)

NoTaskRouting ==
  [enabled |-> "undefined", targetListId |-> Undefined,
   defaultStatus |-> Undefined, confidenceThreshold |-> NotANumber]

\* An element of a keywords array that is no string
NotAString == <<"<not a string>">>

\* A keywords value that is no array
NotAnArray == <<<<"<not an array>">>>>

\* An entry of the array CLICKUP_MEETING_ROUTING_JSON parses to. A field that
\* is missing or no string is Undefined; isObject is FALSE for an entry that is
\* null or no object.
RawRoute(name, keywords, commentTaskId) ==
  [isObject |-> TRUE, name |-> name, keywords |-> keywords,
   commentTaskId |-> commentTaskId, taskId |-> Undefined,
   clickupApiToken |-> Undefined, listId |-> Undefined,
   taskRouting |-> NoTaskRouting]

\* The value of CLICKUP_MEETING_ROUTING_JSON: json is "unset" (or the empty
\* string), "invalid" (JSON.parse throws), "value" (JSON that is no array) or
\* "array", with its entries
RoutingJson(json, entries) == [json |-> json, entries |-> entries]

JsonArray(entries) == RoutingJson("array", entries)

\* the null a skipped entry maps to (fathom.ts:48 and 67)
SkippedRoute ==
  [name |-> Null, commentTaskId |-> Null, clickupApiToken |-> Undefined,
   keywords |-> <<>>, listId |-> Undefined, taskRouting |-> NoTaskRouting]

\* fathom.ts:58-60
ParseKeywords(keywords) ==
  LET IsString(keyword) == keyword # NotAString
  IN IF keywords = NotAnArray THEN <<>> ELSE Filter(keywords, IsString)

\* fathom.ts:53-57
ParseCommentTaskIdNoAlias(candidate) ==
  IF candidate.commentTaskId # Undefined THEN Trim(candidate.commentTaskId)
  ELSE <<>>

ParseCommentTaskId(candidate) ==
  IF candidate.commentTaskId # Undefined THEN Trim(candidate.commentTaskId)
  ELSE IF candidate.taskId # Undefined THEN Trim(candidate.taskId)
  ELSE <<>>

\* fathom.ts:45-112, one entry
ParseRouteEntry(candidate) ==
  LET name == IF candidate.name = Undefined THEN <<>> ELSE Trim(candidate.name)
      commentTaskId == ParseCommentTaskId(candidate)
      keywords == ParseKeywords(candidate.keywords)
  IN IF ~candidate.isObject THEN SkippedRoute
     ELSE IF ~Truthy(name) \/ ~Truthy(commentTaskId) \/ Len(keywords) = 0
     THEN SkippedRoute
     ELSE [name |-> name,
           commentTaskId |-> commentTaskId,
           clickupApiToken |-> OptTrim(candidate.clickupApiToken),
           keywords |-> keywords,
           listId |-> candidate.listId,
           taskRouting |-> candidate.taskRouting]

\* fathom.ts:30-121: unset or empty gives [], a JSON.parse that throws is
\* caught and gives [], a value that is no array gives []
parseMeetingRoutes(rawRoutes) ==
  LET mappedRoutes == Map(rawRoutes.entries, ParseRouteEntry)
      NotNull(route) == route # SkippedRoute
  IN IF rawRoutes.json # "array" THEN <<>>
     ELSE Filter(mappedRoutes, NotNull)

\* fathom.ts:123
normalize(value) == Trim(ToLowerCase(value))

\* fathom.ts:284-296
MatchingFields(p) ==
  LET meetingTitle == Trim(Or(p.meeting_title, Or(p.title, <<>>)))
      InviteeFields(invitee) ==
        <<Or(invitee.name, <<>>), Or(invitee.email, <<>>),
          Or(invitee.email_domain, <<>>)>>
      all == <<meetingTitle,
               Or(p.recorded_by.name, <<>>),
               Or(p.recorded_by.email, <<>>),
               Or(p.recorded_by.email_domain, <<>>)>>
             \o FlatMap(p.calendar_invitees, InviteeFields)
  IN Filter(Map(all, normalize), Truthy)

\* fathom.ts:300-302
MatchedKeywords(route, matchingFields) ==
  LET Hit(keyword) ==
        \E i \in 1..Len(matchingFields) : Includes(matchingFields[i], keyword)
  IN Filter(Map(route.keywords, normalize), Hit)

\* fathom.ts:298-310, before the sort
ScoreRoutes(meetingRoutes, matchingFields) ==
  LET Score(route) ==
        [route |-> route,
         matchedKeywords |-> MatchedKeywords(route, matchingFields),
         score |-> Len(MatchedKeywords(route, matchingFields))]
      Positive(item) == item.score > 0
  IN Filter(Map(meetingRoutes, Score), Positive)

BestMatchLastOfEqual(scored) ==
  LET best == CHOOSE i \in 1..Len(scored) :
                /\ \A j \in 1..Len(scored) : scored[j].score <= scored[i].score
                /\ \A j \in (i + 1)..Len(scored) : scored[j].score < scored[i].score
  IN scored[best]

\* Array.prototype.sort((a, b) => b.score - a.score)[0]: the sort is stable, so
\* the first element is the first item of maximal score (fathom.ts:311-314)
BestMatch(scored) ==
  LET best == CHOOSE i \in 1..Len(scored) :
                /\ \A j \in 1..Len(scored) : scored[j].score <= scored[i].score
                /\ \A j \in 1..(i - 1) : scored[j].score < scored[i].score
  IN scored[best]

NoRoute ==
  [name |-> Undefined, commentTaskId |-> Undefined, clickupApiToken |-> Undefined,
   keywords |-> <<>>, listId |-> Undefined, taskRouting |-> NoTaskRouting,
   matchedKeywords |-> <<>>]

\* fathom.ts:321-328
DefaultRoute(fallbackTaskId) ==
  [name |-> <<"d", "e", "f", "a", "u", "l", "t">>,
   commentTaskId |-> fallbackTaskId, clickupApiToken |-> Undefined,
   keywords |-> <<>>, listId |-> Undefined, taskRouting |-> NoTaskRouting,
   matchedKeywords |-> <<>>]

ResolvedFrom(bestMatch) ==
  [name |-> bestMatch.route.name,
   commentTaskId |-> bestMatch.route.commentTaskId,
   clickupApiToken |-> bestMatch.route.clickupApiToken,
   keywords |-> bestMatch.route.keywords,
   listId |-> bestMatch.route.listId,
   taskRouting |-> bestMatch.route.taskRouting,
   matchedKeywords |-> bestMatch.matchedKeywords]

resolveClickUpRouteFallbackFirst(e, p) ==
  LET meetingRoutes == parseMeetingRoutes(e.CLICKUP_MEETING_ROUTING_JSON)
      fallbackTaskId == OptTrim(e.CLICKUP_DEFAULT_TASK_ID)
      scoredRoutes == ScoreRoutes(meetingRoutes, MatchingFields(p))
  IN IF Len(meetingRoutes) = 0 /\ ~Truthy(fallbackTaskId) THEN NoRoute
     ELSE IF Truthy(fallbackTaskId) THEN DefaultRoute(fallbackTaskId)
     ELSE IF Len(scoredRoutes) > 0 THEN ResolvedFrom(BestMatch(scoredRoutes))
     ELSE NoRoute

resolveClickUpRouteFirstListed(e, p) ==
  LET meetingRoutes == parseMeetingRoutes(e.CLICKUP_MEETING_ROUTING_JSON)
      fallbackTaskId == OptTrim(e.CLICKUP_DEFAULT_TASK_ID)
      scoredRoutes == ScoreRoutes(meetingRoutes, MatchingFields(p))
  IN IF Len(scoredRoutes) > 0 THEN ResolvedFrom(BestMatch(scoredRoutes))
     ELSE IF Truthy(fallbackTaskId) THEN DefaultRoute(fallbackTaskId)
     ELSE IF Len(meetingRoutes) > 0
     THEN ResolvedFrom([route |-> meetingRoutes[1], matchedKeywords |-> <<>>])
     ELSE NoRoute

\* fathom.ts:275-331; NoRoute stands for null
resolveClickUpRoute(e, p) ==
  LET meetingRoutes == parseMeetingRoutes(e.CLICKUP_MEETING_ROUTING_JSON)
      fallbackTaskId == OptTrim(e.CLICKUP_DEFAULT_TASK_ID)
      scoredRoutes == ScoreRoutes(meetingRoutes, MatchingFields(p))
  IN IF Len(meetingRoutes) = 0 /\ ~Truthy(fallbackTaskId) THEN NoRoute
     ELSE IF Len(scoredRoutes) > 0 THEN ResolvedFrom(BestMatch(scoredRoutes))
     ELSE IF Truthy(fallbackTaskId) THEN DefaultRoute(fallbackTaskId)
     ELSE NoRoute

----------------------------------------------------------------------------
(* Configuration chain *)

DisabledFlags ==
  {<<"f", "a", "l", "s", "e">>, <<"0">>, <<"n", "o">>, <<"o", "f", "f">>}

\* fathom.ts:241-244
isGlobalTaskCreationEnabledCaseSensitive(e) ==
  LET flag == Trim(Or(e.CLICKUP_ENABLE_TASK_CREATION, <<"t", "r", "u", "e">>))
  IN flag \notin DisabledFlags

isGlobalTaskCreationEnabled(e) ==
  LET flag == normalize(Or(e.CLICKUP_ENABLE_TASK_CREATION, <<"t", "r", "u", "e">>))
  IN flag \notin DisabledFlags

\* fathom.ts:246-251
isTaskCreationEnabledForRoute(route, e) ==
  IF route.taskRouting.enabled # "undefined"
  THEN route.taskRouting.enabled = "true"
  ELSE isGlobalTaskCreationEnabled(e)

\* fathom.ts:228-231
resolveTaskCreationListIdRouteListFirst(route, e) ==
  LET configuredListId == OptTrim(e.CLICKUP_TASK_CREATION_LIST_ID)
  IN Or(route.listId,
        Or(OptTrim(route.taskRouting.targetListId), Or(configuredListId, Null)))

resolveTaskCreationListId(route, e) ==
  LET configuredListId == OptTrim(e.CLICKUP_TASK_CREATION_LIST_ID)
  IN Or(OptTrim(route.taskRouting.targetListId),
        Or(route.listId, Or(configuredListId, Null)))

\* fathom.ts:218-226
parseGlobalConfidenceThreshold(e) ==
  LET raw == Number(Or(e.GROQ_TASK_CONFIDENCE_THRESHOLD, <<"0", ".", "5">>))
  IN IF ~IsFinite(raw) THEN Num(5) ELSE Clamp01(raw)

\* fathom.ts:268-273
resolveConfidenceThresholdForRouteUnclamped(route, e) ==
  LET routeThreshold == route.taskRouting.confidenceThreshold
  IN IF TypeofNumber(routeThreshold) /\ IsFinite(routeThreshold)
     THEN routeThreshold
     ELSE parseGlobalConfidenceThreshold(e)

resolveConfidenceThresholdForRoute(route, e) ==
  LET routeThreshold == route.taskRouting.confidenceThreshold
  IN IF TypeofNumber(routeThreshold) /\ IsFinite(routeThreshold)
     THEN Clamp01(routeThreshold)
     ELSE parseGlobalConfidenceThreshold(e)

\* fathom.ts:253-259
resolveTaskStatusForRoute(route, e) ==
  LET routeStatus == OptTrim(route.taskRouting.defaultStatus)
  IN IF Truthy(routeStatus) THEN routeStatus
     ELSE Trim(Or(e.CLICKUP_TASK_DEFAULT_STATUS,
                  <<"b", "a", "c", "k", "l", "o", "g">>))

----------------------------------------------------------------------------
(* Meeting texts: date, duration, parent task name (fathom.ts:125-188, 346) *)

\* A time field of the payload: absent (undefined or ''), a string new Date
\* cannot read, or a date, held as its getTime() in whole seconds. The dates of
\* the model all lie on 1 January 2024 of the server's time zone.
NoTime == [kind |-> "absent", time |-> 0]
BadTime == [kind |-> "invalid", time |-> 0]
Time(t) == [kind |-> "date", time |-> t]

\* fathom.ts:148-154; NoTime stands for null
parseIsoDate(value) == IF value.kind = "date" THEN value ELSE NoTime

\* a || b for Date | null
OrDate(a, b) == IF a.kind = "date" THEN a ELSE b

NoDuration == [isNull |-> TRUE, seconds |-> 0]

\* fathom.ts:156-171
getMeetingDurationSeconds(p) ==
  LET recordingStart == parseIsoDate(p.recording_start_time)
      recordingEnd == parseIsoDate(p.recording_end_time)
      scheduledStart == parseIsoDate(p.scheduled_start_time)
      scheduledEnd == parseIsoDate(p.scheduled_end_time)
      start == OrDate(recordingStart, scheduledStart)
      end == OrDate(recordingEnd, scheduledEnd)
      duration == end.time - start.time
  IN IF start.kind # "date" \/ end.kind # "date" THEN NoDuration
     ELSE IF duration > 0 THEN [isNull |-> FALSE, seconds |-> duration]
     ELSE NoDuration

\* String(n) of a natural number
RECURSIVE NumberToString(_)
NumberToString(n) ==
  IF n < 10 THEN <<DecimalDigits[n + 1]>>
  ELSE NumberToString(n \div 10) \o <<DecimalDigits[(n % 10) + 1]>>

\* String(n).padStart(2, '0')
PadStart2(n) ==
  LET text == NumberToString(n)
  IN IF Len(text) < 2 THEN <<"0">> \o text ELSE text

NotAvailable == <<"N", "/", "A">>

\* fathom.ts:180-187: a positive number of seconds as text
DurationText(durationSeconds) ==
  LET hours == durationSeconds \div 3600
      minutes == (durationSeconds % 3600) \div 60
  IN IF hours > 0
     THEN PadStart2(hours) \o <<"h", " ">> \o PadStart2(minutes) \o <<"m">>
     ELSE PadStart2(minutes) \o <<"m">>

\* fathom.ts:173-188
formatMeetingDuration(p) ==
  LET durationSeconds == getMeetingDurationSeconds(p)
  IN IF durationSeconds.isNull \/ durationSeconds.seconds = 0 THEN NotAvailable
     ELSE DurationText(durationSeconds.seconds)

\* fathom.ts:125-146; the payloads of the model carry neither created_at nor
\* timestamp
formatMeetingDate(p) ==
  LET rawDate == IF p.recording_start_time.kind # "absent"
                 THEN p.recording_start_time ELSE p.scheduled_start_time
  IN IF rawDate.kind # "date" THEN NotAvailable
     ELSE <<"0", "1", "-", "0", "1", "-", "2", "0", "2", "4">>

\* meeting_title || title || 'Untitled Meeting'
MeetingTitle(p) ==
  Or(p.meeting_title, Or(p.title,
     <<"U", "n", "t", "i", "t", "l", "e", "d", " ", "M", "e", "e", "t", "i",
       "n", "g">>))

\* fathom.ts:350
MainMeetingTaskName(meetingDate, meetingTitle, meetingDuration) ==
  meetingDate
  \o <<" ", "-", " ", "M", "e", "e", "t", "i", "n", "g", " ", "d", "i", "s", "c", "u",
    "s", "s", "e", "d", " ", "t", "a", "s", "k", "s">>
  \o <<" ", "|", " ", "T", "i", "t", "l", "e", ":", " ">> \o meetingTitle
  \o <<" ", "|", " ", "D", "u", "r", "a", "t", "i", "o", "n", ":", " ">> \o meetingDuration

\* fathom.ts:346-351
buildMainMeetingTaskName(p) ==
  MainMeetingTaskName(formatMeetingDate(p), MeetingTitle(p), formatMeetingDuration(p))

\* fathom.ts:353-368
buildTranscriptTextForDescription(p) ==
  LET Line(entry) ==
        <<"[">> \o Or(entry.timestamp, <<"0", "0", ":", "0", "0", ":", "0", "0">>)
        \o <<"]", " ">>
        \o Or(entry.speaker, <<"U", "n", "k", "n", "o", "w", "n">>)
        \o <<":", " ">> \o Trim(Or(entry.text, <<>>))
  IN IF Len(p.transcript) = 0
     THEN <<"T", "r", "a", "n", "s", "c", "r", "i", "p", "t", " ", "n", "o", "t", " ",
            "a", "v", "a", "i", "l", "a", "b", "l", "e", ".">>
     ELSE Join(Map(p.transcript, Line), <<"\n">>)

\* fathom.ts:376-386; the payloads of the model carry neither share_url nor url
MainTaskDescriptionText(p, extractedCount) ==
  Join(<<<<"A", "u", "t", "o", "-", "c", "r", "e", "a", "t", "e", "d", " ", "f", "r",
            "o", "m", " ", "F", "a", "t", "h", "o", "m", " ", "m", "e", "e", "t", "i",
            "n", "g", " ", "t", "r", "a", "n", "s", "c", "r", "i", "p", "t", ".">>,
         <<"M", "e", "e", "t", "i", "n", "g", " ", "t", "i", "t", "l", "e", ":", " ">> \o MeetingTitle(p),
         <<"M", "e", "e", "t", "i", "n", "g", " ", "d", "a", "t", "e", ":", " ">> \o formatMeetingDate(p),
         <<"M", "e", "e", "t", "i", "n", "g", " ", "d", "u", "r", "a", "t", "i", "o",
            "n", ":", " ">> \o formatMeetingDuration(p),
         <<"M", "e", "e", "t", "i", "n", "g", " ", "l", "i", "n", "k", ":", " ", "N",
            "/", "A">>,
         <<"T", "o", "t", "a", "l", " ", "e", "x", "t", "r", "a", "c", "t", "e", "d",
            " ", "t", "a", "s", "k", " ", "i", "t", "e", "m", "s", ":", " ">> \o NumberToString(extractedCount),
         <<>>,
         <<"C", "a", "l", "l", " ", "T", "r", "a", "n", "s", "c", "r", "i", "p", "t",
            ":">>,
         buildTranscriptTextForDescription(p)>>,
       <<"\n">>)

\* fathom.ts:394
TruncationMarker ==
  <<"\n", "\n", "[", "T", "r", "a", "n", "s", "c", "r", "i", "p", "t", " ", "t", "r",
      "u", "n", "c", "a", "t", "e", "d", " ", "d", "u", "e", " ", "t", "o", " ", "l",
      "e", "n", "g", "t", "h", "]">>

\* fathom.ts:370-396; maxChars is held in tenths, as every number of the model
buildMainTaskDescription(p, extractedCount, e) ==
  LET description == MainTaskDescriptionText(p, extractedCount)
      maxChars == Number(Or(e.CLICKUP_MAIN_TASK_DESCRIPTION_MAX_CHARS,
                            <<"5", "0", "0", "0", "0">>))
      ellipsis == TruncationMarker
      room == MathMax(0, maxChars.v - 10 * Len(ellipsis)) \div 10
  IN IF ~IsFinite(maxChars) \/ maxChars.v <= 0 \/ 10 * Len(description) <= maxChars.v
     THEN description
     ELSE SubSeq(description, 1, MathMin(room, Len(description))) \o ellipsis

----------------------------------------------------------------------------
(* The two services: clickup.ts and groq.ts *)

\* The token a ClickUp call authorizes with; apiToken is the field the handler
\* passes in the request (clickup.ts:104 and 151 read the environment only)
ClickUpCallToken(e, apiToken) == e.CLICKUP_API_TOKEN

\* What a ClickUp HTTP exchange can end in (clickup.ts:48-101, 143-147, 198-202):
\*   "reject"  transport error, or a body that is no JSON
\*   "non2xx"  a status outside 200..299
\*   "id"      2xx, an object with a non-empty id
\*   "noid"    2xx, an empty body or an object without id
\*   "null"    2xx, the JSON value null
ClickUpOutcomes == {"reject", "non2xx", "id", "noid", "null"}

\* the call threw: httpRequest rejected, or the status check of clickup.ts:143
\* and 198 failed
ClickUpThrowsOnRejectOnly(outcome) == outcome = "reject"

ClickUpThrows(outcome) == outcome \in {"reject", "non2xx"}

\* the data of the response (an error body is an object without id)
ClickUpData(outcome, id) ==
  CASE outcome = "id" -> [isNull |-> FALSE, id |-> id]
    [] outcome = "null" -> [isNull |-> TRUE, id |-> Undefined]
    [] OTHER -> [isNull |-> FALSE, id |-> Undefined]

\* fathom.ts:446-449: the parent task exists for the subtask loop only when the
\* call returned and carried an id
ParentCreatedWithoutIdCheck(threw, parentTaskId) == ~threw

ParentCreated(threw, parentTaskId) == ~threw /\ Truthy(parentTaskId)

\* groq.ts:115-130
buildTranscriptText(p) ==
  LET Line(entry) ==
        <<"[">> \o Or(entry.timestamp, <<"0", "0", ":", "0", "0", ":", "0", "0">>)
        \o <<"]", " ">>
        \o Or(entry.speaker, <<"U", "n", "k", "n", "o", "w", "n">>)
        \o <<":", " ">> \o Or(entry.text, <<>>)
  IN IF Len(p.transcript) = 0 THEN <<>>
     ELSE Join(Map(p.transcript, Line), <<"\n">>)

\* groq.ts:170-179: extractTasksFromTranscript returns null without a request
ExtractionSkippedWithoutKeyOnly(e, p) == ~Truthy(OptTrim(e.GROQ_API_KEY))

ExtractionSkipped(e, p) ==
  \/ ~Truthy(OptTrim(e.GROQ_API_KEY))
  \/ ~Truthy(buildTranscriptText(p))

\* An entry of the calls log. outcome is how the exchange ended: "pending"
\* while the request is outstanding, "no_token" when the call threw before any
\* request, else one of ClickUpOutcomes / GroqFailures / "tasks". status is
\* what the caller saw: "pending", "failed" (the call threw) or "ok".
\* listId, taskStatus and confidence are those of a createTask request: the
\* list of the endpoint, requestPayload.status, and the confidence of the item
\* a subtask is created for. name and description are those of the request for
\* the parent task.
Call(kind, item, auth, status) ==
  [kind |-> kind, item |-> item, auth |-> auth, status |-> status,
   outcome |-> IF status = "failed" THEN "no_token" ELSE "pending", id |-> Null,
   listId |-> Undefined, taskStatus |-> Undefined, confidence |-> NotANumber,
   name |-> Undefined, description |-> Undefined, content |-> <<>>]

\* the request createMeetingTasksInClickUp hands to createTask (fathom.ts:437-444
\* and 454-462)
CreateTaskRequest(apiToken, listId, taskStatus, confidence) ==
  [apiToken |-> apiToken, listId |-> listId, status |-> taskStatus,
   confidence |-> confidence, name |-> Undefined, description |-> Undefined]

\* clickup.ts:150-196: createTask up to its await; it throws without a token
CreateTaskStart(kind, item, e, requestPayload) ==
  LET clickUpApiToken == ClickUpCallToken(e, requestPayload.apiToken)
  IN [Call(kind, item, clickUpApiToken,
           IF Truthy(clickUpApiToken) THEN "pending" ELSE "failed")
        EXCEPT !.listId = requestPayload.listId,
               !.taskStatus = requestPayload.status,
               !.confidence = requestPayload.confidence,
               !.name = requestPayload.name,
               !.description = requestPayload.description]

\* fathom.ts:452: the subtask calls issued when the loop stands before item
\* `from` of n items: the loop awaits each call before it issues the next
SubtaskBatchFanOut(n, from) == from..n

SubtaskBatch(n, from) == IF from <= n THEN {from} ELSE {}

\* fathom.ts:452-474: where the loop stands after the call for `item` ended;
\* the catch is inside the loop body, so a failed call does not leave the loop
AfterSubtaskStopOnFailure(item, n, threw) == IF threw THEN n + 1 ELSE item + 1

AfterSubtask(item, n, threw) == item + 1

\* fathom.ts:453-463: createdSubtasksCount += 1 is reached only when the
\* awaited createTask did not throw
CountCreatedAlways(count, threw) == count + 1

CountCreated(count, threw) == IF threw THEN count ELSE count + 1

----------------------------------------------------------------------------
(* The handler, fathomWebhookHandler (fathom.ts:546-693) *)

NoResponse ==
  [status |-> 0, success |-> FALSE, postedToClickUp |-> FALSE,
   extractedTasksCount |-> 0, createdMainTaskId |-> Null,
   eligibleSubtasksCount |-> 0, createdSubtasksCount |-> 0]

\* fathom.ts:563
Response400 == [NoResponse EXCEPT !.status = 400]

\* fathom.ts:574-579
Response202 == [NoResponse EXCEPT !.status = 202, !.success = TRUE]

\* fathom.ts:688-691
Response500Unsent == NoResponse

Response500 == [NoResponse EXCEPT !.status = 500]

\* fathom.ts:666-681
Response200(extractedTasksCount, createdMainTaskId, eligible, created) ==
  [status |-> 200, success |-> TRUE, postedToClickUp |-> TRUE,
   extractedTasksCount |-> extractedTasksCount,
   createdMainTaskId |-> createdMainTaskId,
   eligibleSubtasksCount |-> eligible, createdSubtasksCount |-> created]

Respond(r) ==
  /\ response' = r
  /\ pc' = "responded"

\* calls with entry i completed
Completed(i, outcome, status, id) ==
  [calls EXCEPT ![i].outcome = outcome, ![i].status = status, ![i].id = id]

TheInflight == CHOOSE i \in inflight : TRUE

\* fathom.ts:561: !payload || Object.keys(payload).length === 0
IsEmptyPayloadNever(p) == FALSE

IsEmptyPayload(p) == p.isEmpty

\* fathom.ts:546-590 and clickup.ts:103-141: validation, route resolution and
\* postTaskComment up to its await
Receive ==
  /\ pc = "received"
  /\ UNCHANGED <<env, payload, extracted, mainTaskId, createdSubtasksCount,
                 summaryLog>>
  /\ IF IsEmptyPayload(payload)
     THEN /\ Respond(Response400)
          /\ UNCHANGED <<resolvedRoute, calls, inflight>>
     ELSE LET route == resolveClickUpRoute(env, payload)
              token == ClickUpCallToken(env, route.clickupApiToken)
          IN IF route = NoRoute
             THEN /\ Respond(Response202)
                  /\ UNCHANGED <<resolvedRoute, calls, inflight>>
             ELSE /\ resolvedRoute' = route
                  /\ IF ~Truthy(token)
                     THEN /\ calls' = Append(calls, Call("comment", 0, token, "failed"))
                          /\ Respond(Response500)
                          /\ UNCHANGED inflight
                     ELSE /\ calls' = Append(calls, Call("comment", 0, token, "pending"))
                          /\ inflight' = {Len(calls) + 1}
                          /\ pc' = "awaitComment"
                          /\ UNCHANGED response

\* clickup.ts:143-147, fathom.ts:592-620, 658-681 and groq.ts:167-222: the
\* comment call ends; the handler logs, then runs extractTasksFromTranscript up
\* to its await
CommentReturns ==
  /\ pc = "awaitComment"
  /\ UNCHANGED <<env, payload, resolvedRoute, extracted, mainTaskId,
                 createdSubtasksCount, summaryLog>>
  /\ \E outcome \in ClickUpOutcomes :
       LET data == ClickUpData(outcome, <<"c">>)
       IN IF ClickUpThrows(outcome)
          THEN /\ calls' = Completed(TheInflight, outcome, "failed", Null)
               /\ inflight' = {}
               /\ Respond(Response500)
          ELSE IF data.isNull
          THEN \* clickUpComment.id of fathom.ts:598 throws a TypeError
               /\ calls' = Completed(TheInflight, outcome, "ok", Null)
               /\ inflight' = {}
               /\ Respond(Response500)
          ELSE IF ExtractionSkipped(env, payload)
          THEN /\ calls' = Completed(TheInflight, outcome, "ok", Or(data.id, Null))
               /\ inflight' = {}
               /\ Respond(Response200(0, Null, 0, 0))
          ELSE /\ calls' = Append(Completed(TheInflight, outcome, "ok", Or(data.id, Null)),
                                  Call("extract", 0, OptTrim(env.GROQ_API_KEY), "pending"))
               /\ inflight' = {Len(calls) + 1}
               /\ pc' = "awaitExtract"
               /\ UNCHANGED response

\* What the extraction exchange can end in (groq.ts:213-233):
\*   "reject"  transport error, or a body that is no JSON
\*   "non2xx"  a status outside 200..299
\*   "empty"   2xx without message content
\*   "badjson" content that parseGroqJsonResponse throws on
\*   "tasks"   content that parses to a result with the given items
GroqFailures == {"reject", "non2xx", "empty", "badjson"}

\* groq.ts:213-233: extractTasksFromTranscript threw
GroqThrowsUnlessEmpty(kind) == kind \in {"reject", "non2xx", "badjson"}

GroqThrows(kind) == kind \in {"reject", "non2xx", "empty", "badjson"}

\* An element of the tasks array of the response as JSON.parse returns it:
\* task is Undefined when it is no string, confidence NotANumber when it is no
\* number; owner, priority and evidence are Undefined when they are no
\* strings, due_date is Null for null and Undefined for anything else that is
\* no string
RawItem(task, confidence) ==
  [isNull |-> FALSE, task |-> task, owner |-> <<"B", "o">>, due_date |-> Null,
   priority |-> <<"h", "i", "g", "h">>, confidence |-> confidence,
   evidence |-> <<"e">>]

\* an element that is no object (a number, a string, true): reading any
\* property of it gives undefined
PrimitiveItem ==
  [isNull |-> FALSE, task |-> Undefined, owner |-> Undefined,
   due_date |-> Undefined, priority |-> Undefined, confidence |-> NotANumber,
   evidence |-> Undefined]

\* the element null
NullItem == [PrimitiveItem EXCEPT !.isNull = TRUE]

Unassigned == <<"U", "n", "a", "s", "s", "i", "g", "n", "e", "d">>

Medium == <<"m", "e", "d", "i", "u", "m">>

Priorities == {<<"h", "i", "g", "h">>, <<"l", "o", "w">>, Medium}

\* groq.ts:141-157: one element normalised
ParseTaskItem(item) ==
  [task |-> IF item.task = Undefined THEN <<>> ELSE item.task,
   owner |-> IF item.owner = Undefined THEN Unassigned ELSE item.owner,
   due_date |-> IF item.due_date = Undefined THEN Null ELSE item.due_date,
   priority |-> IF item.priority \in Priorities THEN item.priority ELSE Medium,
   confidence |-> IF TypeofNumber(item.confidence) /\ IsFinite(item.confidence)
                  THEN item.confidence ELSE Num(0),
   evidence |-> IF item.evidence = Undefined THEN <<>> ELSE item.evidence]

\* groq.ts:142-145: item.priority of the element null throws a TypeError
ParseThrows(tasks) == \E i \in 1..Len(tasks) : tasks[i].isNull

\* groq.ts:132-165, the tasks of the result: every element normalised, the
\* elements without a task text dropped
parseGroqJsonResponse(tasks) ==
  LET HasTask(item) == Len(item.task) > 0
  IN Filter(Map(tasks, ParseTaskItem), HasTask)

\* the items a response carries in the orchestration runs: one of low and one
\* of high confidence
ItemPool == {RawItem(<<"t">>, Num(2)), RawItem(<<"u">>, Num(9))}

GroqOutcomesOver(pool) ==
  {[kind |-> k, tasks |-> <<>>] : k \in GroqFailures}
  \cup {[kind |-> "tasks", tasks |-> t] : t \in SeqsOf(pool, 0, MaxTasks)}

GroqOutcomes == GroqOutcomesOver(ItemPool)

NoExtraction == [isNull |-> TRUE, tasks |-> <<>>]

\* fathom.ts:433: the items subtasks are created for
selectedTasksAboveThreshold(extractedTasks, route, e) ==
  LET threshold == resolveConfidenceThresholdForRoute(route, e)
      Above(item) == item.confidence.v > threshold.v
  IN Filter(extractedTasks, Above)

selectedTasks(extractedTasks, route, e) == extractedTasks

NoSummaryLog == [logged |-> FALSE, confidenceThreshold |-> NotANumber]

\* fathom.ts:637-646: the summary logged once createMeetingTasksInClickUp has
\* returned
TaskCreationSummary(route, e) ==
  [logged |-> TRUE,
   confidenceThreshold |-> resolveConfidenceThresholdForRoute(route, e)]

IssuedItems(cs) == {cs[i].item : i \in {j \in 1..Len(cs) : cs[j].kind = "subtask"}}

Min(S) == CHOOSE x \in S : \A y \in S : x <= y

\* fathom.ts:452-474 from loop position `from` up to the next await: the calls
\* log and the requests now outstanding
RECURSIVE IssueSubtasks(_, _, _)
IssueSubtasks(cs, from, n) ==
  LET batch == SubtaskBatch(n, from) \ IssuedItems(cs)
  IN IF batch = {} THEN [calls |-> cs, inflight |-> {}]
     ELSE LET item == Min(batch)
              taskItem == selectedTasks(extracted.tasks, resolvedRoute, env)[item]
              call == CreateTaskStart("subtask", item, env,
                        CreateTaskRequest(resolvedRoute.clickupApiToken,
                                          resolveTaskCreationListId(resolvedRoute, env),
                                          resolveTaskStatusForRoute(resolvedRoute, env),
                                          taskItem.confidence))
              cs2 == Append(cs, call)
          IN IF call.status = "failed" THEN IssueSubtasks(cs2, item + 1, n)
             ELSE LET rest == IF batch = {item}
                              THEN [calls |-> cs2, inflight |-> {}]
                              ELSE IssueSubtasks(cs2, from, n)
                  IN [calls |-> rest.calls,
                      inflight |-> rest.inflight \cup {Len(cs2)}]

\* groq.ts:224-233, fathom.ts:613-663 and 404-444, clickup.ts:150-196: the
\* extraction call ends in one of `outcomes`; the handler runs
\* createMeetingTasksInClickUp up to the await of the parent createTask
ExtractReturnsFrom(outcomes) ==
  /\ pc = "awaitExtract"
  /\ UNCHANGED <<env, payload, resolvedRoute, mainTaskId, createdSubtasksCount>>
  /\ \E outcome \in outcomes :
       IF GroqThrows(outcome.kind) \/ ParseThrows(outcome.tasks)
       THEN /\ calls' = [Completed(TheInflight, outcome.kind, "failed", Null)
                          EXCEPT ![TheInflight].content = outcome.tasks]
            /\ inflight' = {}
            /\ extracted' = NoExtraction
            /\ UNCHANGED summaryLog
            /\ Respond(Response200(0, Null, 0, 0))
       ELSE LET tasks == parseGroqJsonResponse(outcome.tasks)
                extractedTasksCount == Len(tasks)
                done == [Completed(TheInflight, outcome.kind, "ok", Null)
                           EXCEPT ![TheInflight].content = outcome.tasks]
                listId == resolveTaskCreationListId(resolvedRoute, env)
                taskStatus == resolveTaskStatusForRoute(resolvedRoute, env)
                parent == CreateTaskStart("parent", 0, env,
                            [CreateTaskRequest(resolvedRoute.clickupApiToken,
                                               listId, taskStatus, NotANumber)
                               EXCEPT !.name = buildMainMeetingTaskName(payload),
                                      !.description =
                                        buildMainTaskDescription(
                                          payload, extractedTasksCount, env)])
            IN /\ extracted' = [isNull |-> FALSE, tasks |-> tasks]
               /\ IF ~isTaskCreationEnabledForRoute(resolvedRoute, env)
                     \/ ~Truthy(listId)
                  THEN /\ calls' = done
                       /\ inflight' = {}
                       /\ summaryLog' = TaskCreationSummary(resolvedRoute, env)
                       /\ Respond(Response200(extractedTasksCount, Null, 0, 0))
                  ELSE IF parent.status = "failed"
                  THEN /\ calls' = Append(done, parent)
                       /\ inflight' = {}
                       /\ UNCHANGED summaryLog
                       /\ Respond(Response200(extractedTasksCount, Null, 0, 0))
                  ELSE /\ calls' = Append(done, parent)
                       /\ inflight' = {Len(calls) + 1}
                       /\ pc' = "awaitParent"
                       /\ UNCHANGED <<summaryLog, response>>

ExtractReturns == ExtractReturnsFrom(GroqOutcomes)

\* clickup.ts:198-202 and fathom.ts:446-462, 476-480, 633-681: the parent call
\* ends; the loop issues the first subtask call
ParentReturns ==
  /\ pc = "awaitParent"
  /\ UNCHANGED <<env, payload, resolvedRoute, extracted, createdSubtasksCount>>
  /\ \E outcome \in ClickUpOutcomes :
       LET data == ClickUpData(outcome, <<"p">>)
           extractedTasksCount == Len(extracted.tasks)
           n == Len(selectedTasks(extracted.tasks, resolvedRoute, env))
           parentTaskId == IF data.isNull THEN Null ELSE Or(data.id, Null)
       IN IF ~ParentCreated(ClickUpThrows(outcome), parentTaskId)
          THEN /\ calls' = Completed(TheInflight, outcome,
                                     IF ClickUpThrows(outcome) THEN "failed" ELSE "ok",
                                     Null)
               /\ inflight' = {}
               /\ UNCHANGED <<mainTaskId, summaryLog>>
               /\ Respond(Response200(extractedTasksCount, Null, 0, 0))
          ELSE LET loop == IssueSubtasks(Completed(TheInflight, outcome, "ok", parentTaskId), 1, n)
               IN /\ mainTaskId' = parentTaskId
                  /\ calls' = loop.calls
                  /\ inflight' = loop.inflight
                  /\ IF loop.inflight = {}
                     THEN /\ summaryLog' = TaskCreationSummary(resolvedRoute, env)
                          /\ Respond(Response200(extractedTasksCount, parentTaskId, n, 0))
                     ELSE /\ pc' = "awaitSubtask"
                          /\ UNCHANGED <<summaryLog, response>>

\* clickup.ts:198-202 and fathom.ts:463-480, 633-681: a subtask call ends; the
\* loop counts it and goes on to the next item, or the handler responds
SubtaskReturns ==
  /\ pc = "awaitSubtask"
  /\ UNCHANGED <<env, payload, resolvedRoute, extracted, mainTaskId>>
  /\ \E c \in inflight, outcome \in ClickUpOutcomes :
       LET extractedTasksCount == Len(extracted.tasks)
           n == Len(selectedTasks(extracted.tasks, resolvedRoute, env))
           data == ClickUpData(outcome, <<"s">>)
           created == CountCreated(createdSubtasksCount, ClickUpThrows(outcome))
           done == Completed(c, outcome,
                             IF ClickUpThrows(outcome) THEN "failed" ELSE "ok",
                             IF data.isNull THEN Null ELSE Or(data.id, Null))
           loop == IssueSubtasks(done, AfterSubtask(calls[c].item, n, ClickUpThrows(outcome)), n)
           waiting == (inflight \ {c}) \cup loop.inflight
       IN /\ createdSubtasksCount' = created
          /\ calls' = loop.calls
          /\ inflight' = waiting
          /\ IF waiting = {}
             THEN /\ summaryLog' = TaskCreationSummary(resolvedRoute, env)
                  /\ Respond(Response200(extractedTasksCount, mainTaskId, n, created))
             ELSE UNCHANGED <<pc, summaryLog, response>>

----------------------------------------------------------------------------
(* Inputs *)

Entry(text) == [timestamp |-> Undefined, speaker |-> Undefined, text |-> text]

Payload(title, recorderEmail, transcript) ==
  [isEmpty |-> FALSE, meeting_title |-> Undefined, title |-> title,
   recorded_by |-> [name |-> Undefined, email |-> recorderEmail,
                    email_domain |-> Undefined],
   calendar_invitees |-> <<>>, transcript |-> transcript,
   recording_start_time |-> NoTime, recording_end_time |-> NoTime,
   scheduled_start_time |-> NoTime, scheduled_end_time |-> NoTime]

EmptyPayload ==
  [isEmpty |-> TRUE, meeting_title |-> Undefined, title |-> Undefined,
   recorded_by |-> [name |-> Undefined, email |-> Undefined,
                    email_domain |-> Undefined],
   calendar_invitees |-> <<>>, transcript |-> <<>>,
   recording_start_time |-> NoTime, recording_end_time |-> NoTime,
   scheduled_start_time |-> NoTime, scheduled_end_time |-> NoTime]

Env(token, defaultTaskId, routes, enable, listId, groqKey) ==
  [CLICKUP_API_TOKEN |-> token,
   CLICKUP_DEFAULT_TASK_ID |-> defaultTaskId,
   CLICKUP_MEETING_ROUTING_JSON |-> JsonArray(routes),
   CLICKUP_ENABLE_TASK_CREATION |-> enable,
   CLICKUP_TASK_CREATION_LIST_ID |-> listId,
   CLICKUP_TASK_DEFAULT_STATUS |-> Undefined,
   CLICKUP_MAIN_TASK_DESCRIPTION_MAX_CHARS |-> Undefined,
   GROQ_TASK_CONFIDENCE_THRESHOLD |-> Undefined,
   GROQ_API_KEY |-> groqKey]

\* The routes of the orchestration runs: one keyword, every combination of the
\* optional settings the handler reads; the confidence threshold is the global
\* default (0.5, between the two items of ItemPool) or 1 (above both)
RouteVariants ==
  {[RawRoute(<<"R">>, <<<<"a">>>>, <<"C">>) EXCEPT
      !.clickupApiToken = tok, !.listId = lid,
      !.taskRouting = [NoTaskRouting EXCEPT !.enabled = en, !.targetListId = tl,
                                            !.confidenceThreshold = th]] :
     tok \in {Undefined, <<"r">>}, lid \in {Undefined, <<"L">>},
     en \in {"undefined", "true", "false"}, tl \in {Undefined, <<"T">>},
     th \in {NotANumber, Num(10)}}

Payloads ==
  {EmptyPayload,
   Payload(<<"a">>, Undefined, <<Entry(<<"x">>)>>),
   Payload(<<"a">>, Undefined, <<>>),
   Payload(<<"b">>, Undefined, <<Entry(<<"x">>)>>)}

Envs ==
  {Env(token, dflt, routes, enable, listId, key) :
     token \in {Undefined, <<"g">>},
     dflt \in {Undefined, <<"D">>},
     routes \in {<<>>} \cup {<<r>> : r \in RouteVariants},
     enable \in {Undefined, <<"O", "F", "F">>},
     listId \in {Undefined, <<"G">>},
     key \in {Undefined, <<"k">>}}

Start ==
  /\ pc = "received"
  /\ resolvedRoute = NoRoute
  /\ calls = <<>>
  /\ inflight = {}
  /\ extracted = NoExtraction
  /\ mainTaskId = Null
  /\ createdSubtasksCount = 0
  /\ summaryLog = NoSummaryLog
  /\ response = NoResponse

Init ==
  /\ env \in Envs
  /\ payload \in Payloads
  /\ Start

Next ==
  \/ Receive
  \/ CommentReturns
  \/ ExtractReturns
  \/ ParentReturns
  \/ SubtaskReturns

Spec == Init /\ [][Next]_vars

----------------------------------------------------------------------------
(* Route resolution on its own: the handler's first step over a wider range *)
(* of route tables and events                                               *)

\* keyword lists as configured: mixed case, padding, a repeated keyword, a
\* blank keyword, keywords contained in one another
KeywordLists ==
  {<<<<"a">>>>, <<<<"B", " ">>>>, <<<<"a">>, <<" ", "B">>>>, <<<<"a">>, <<"A">>>>,
   <<<<" ">>>>, <<<<"a", "b">>>>, <<<<"x">>, <<"a">>>>, <<<<"b">>, <<"a", "b">>>>}

RouteNames == <<<<"R", "1">>, <<"R", "2">>, <<"R", "3">>, <<"R", "4">>>>

\* route tables of up to MaxRoutes entries, entry i named RouteNames[i]; an
\* entry with a blank comment target is dropped by the parser
RouteTables ==
  LET Entries(i) ==
        {RawRoute(RouteNames[i], kws, <<"C">> \o RouteNames[i]) : kws \in KeywordLists}
        \cup {RawRoute(RouteNames[i], <<<<"a">>>>, <<" ">>)}
  IN UNION {{t \in [1..n -> UNION {Entries(i) : i \in 1..n}] :
               \A i \in 1..n : t[i] \in Entries(i)} : n \in 0..MaxRoutes}

Invitee(name) == [name |-> name, email |-> Undefined, email_domain |-> Undefined]

ResolvePayloads ==
  {[Payload(title, email, <<>>) EXCEPT !.calendar_invitees = invitees] :
     title \in {Undefined, <<"A">>, <<" ", "a", "b">>, <<"x", "B">>, <<" ">>},
     email \in {Undefined, <<"b">>},
     invitees \in {<<>>, <<Invitee(<<"y">>), Invitee(<<"A", "B", " ">>)>>}}

ResolveEnvs ==
  {Env(<<"g">>, dflt, routes, Undefined, Undefined, Undefined) :
     dflt \in {Undefined, <<" ">>, <<"D">>, <<" ", "D", " ">>},
     routes \in RouteTables}

InitResolve ==
  /\ env \in ResolveEnvs
  /\ payload \in ResolvePayloads
  /\ Start

SpecResolve == InitResolve /\ [][Receive]_vars

----------------------------------------------------------------------------
(* The configuration chain over a wider range of settings: one matching     *)
(* route, one group of settings varied at a time                            *)

ConfigRoute == RawRoute(<<"R">>, <<<<"a">>>>, <<"C">>)

ConfigEnv(route) ==
  Env(<<"g">>, Undefined, <<route>>, Undefined, Undefined, <<"k">>)

\* where the tasks go: padded and blank list ids at the three levels, and the
\* default route, which has no list of its own
ListSettings ==
  {[ConfigEnv([ConfigRoute EXCEPT
                 !.listId = lid,
                 !.taskRouting = [NoTaskRouting EXCEPT !.targetListId = tl]])
      EXCEPT !.CLICKUP_TASK_CREATION_LIST_ID = gl] :
     tl \in {Undefined, <<" ">>, <<"T">>, <<" ", "T">>},
     lid \in {Undefined, <<" ">>, <<"L">>},
     gl \in {Undefined, <<" ">>, <<"G">>, <<"G", " ">>}}
  \cup {Env(<<"g">>, <<"D">>, <<>>, Undefined, gl, <<"k">>) :
          gl \in {Undefined, <<"G">>}}

\* the switch: the route-level boolean against spellings of the global flag
SwitchSettings ==
  {[ConfigEnv([ConfigRoute EXCEPT
                 !.listId = <<"L">>,
                 !.taskRouting = [NoTaskRouting EXCEPT !.enabled = en]])
      EXCEPT !.CLICKUP_ENABLE_TASK_CREATION = flag] :
     en \in {"undefined", "true", "false"},
     flag \in {Undefined, <<>>, <<"0">>, <<"1">>, <<"n", "o">>, <<"N", "o", " ">>,
               <<" ", "O", "F", "F">>, <<"F", "a", "l", "s", "e">>,
               <<"t", "r", "u", "e">>, <<"o", "n">>, <<"n", "o", "n", "e">>,
               <<"0", "0">>}}

\* the threshold: route-level numbers in and out of range and not finite,
\* against global strings unset, empty, not numeric, padded, out of range
ThresholdSettings ==
  {[ConfigEnv([ConfigRoute EXCEPT
                 !.taskRouting = [NoTaskRouting EXCEPT !.confidenceThreshold = th]])
      EXCEPT !.GROQ_TASK_CONFIDENCE_THRESHOLD = gt] :
     th \in {NotANumber, Num(0 - 3), Num(0), Num(7), Num(10), Num(25), Infinity,
             NegInfinity, NaN},
     gt \in {Undefined, <<>>, <<"a", "b", "c">>, <<"0", ".", "7">>, <<"3">>,
             <<"-", "1">>, <<"I", "n", "f", "i", "n", "i", "t", "y">>,
             <<" ", "0", ".", "2", " ">>, <<"1">>, <<"0">>, <<" ">>,
             <<".", "9">>, <<"1", ".", "2", ".", "3">>}}

\* the status: route-level and global values set, padded, blank, unset
StatusSettings ==
  {[ConfigEnv([ConfigRoute EXCEPT
                 !.listId = <<"L">>,
                 !.taskRouting = [NoTaskRouting EXCEPT !.defaultStatus = rs]])
      EXCEPT !.CLICKUP_TASK_DEFAULT_STATUS = gs] :
     rs \in {Undefined, <<>>, <<" ">>, <<"o">>, <<" ", "o", " ">>},
     gs \in {Undefined, <<>>, <<" ">>, <<"s">>, <<"s", " ">>}}

ConfigEnvs == ListSettings \cup SwitchSettings \cup ThresholdSettings \cup StatusSettings

InitConfig ==
  /\ env \in ConfigEnvs
  /\ payload = Payload(<<"a">>, Undefined, <<Entry(<<"x">>)>>)
  /\ Start

SpecConfig == InitConfig /\ [][Next]_vars

----------------------------------------------------------------------------
(* The extraction result over a wider range of response items: the handler  *)
(* up to the start of task creation                                         *)

\* items as a response may carry them: confidence in range, above 1, negative,
\* infinite (1e999), no number; no task text, an empty task text
ResponseItems ==
  {RawItem(<<"t">>, Num(2)), RawItem(<<"o">>, Num(15)), RawItem(<<"n">>, Num(0 - 2)),
   RawItem(<<"i">>, Infinity), RawItem(<<"s">>, NotANumber),
   RawItem(Undefined, Num(5)), RawItem(<<>>, Num(10)),
   [RawItem(<<"w">>, Num(5)) EXCEPT !.owner = Undefined, !.due_date = Undefined,
                                    !.priority = <<"x">>, !.evidence = Undefined],
   [RawItem(<<"d">>, Num(5)) EXCEPT !.due_date = <<"1">>, !.priority = Undefined],
   PrimitiveItem, NullItem}

ExtractReturnsAny == ExtractReturnsFrom(GroqOutcomesOver(ResponseItems))

InitExtract ==
  /\ env \in {ConfigEnv(ConfigRoute), ConfigEnv([ConfigRoute EXCEPT !.listId = <<"L">>])}
  /\ payload = Payload(<<"a">>, Undefined, <<Entry(<<"x">>)>>)
  /\ Start

NextExtract ==
  \/ Receive
  \/ CommentReturns
  \/ ExtractReturnsAny

SpecExtract == InitExtract /\ [][NextExtract]_vars

----------------------------------------------------------------------------
(* Parsing of the route table over configurations of every kind: the        *)
(* handler's first step                                                     *)

\* the entries position i of an array may hold: three that are kept (plain,
\* target under the alias, padded name with a keyword that is no string among
\* the keywords) and nine that lack something
ParseEntries(i) ==
  LET target == <<"C">> \o RouteNames[i]
      base == RawRoute(RouteNames[i], <<<<"a">>>>, target)
  IN {base,
      [base EXCEPT !.commentTaskId = Undefined, !.taskId = target],
      [base EXCEPT !.name = <<" ">> \o RouteNames[i] \o <<" ">>,
                   !.keywords = <<NotAString, <<"a">>>>],
      [RawRoute(Undefined, NotAnArray, Undefined) EXCEPT !.isObject = FALSE],
      [base EXCEPT !.name = Undefined],
      [base EXCEPT !.name = <<" ">>],
      [base EXCEPT !.commentTaskId = Undefined],
      [base EXCEPT !.commentTaskId = <<" ">>, !.taskId = target],
      [base EXCEPT !.commentTaskId = Undefined, !.taskId = <<>>],
      [base EXCEPT !.keywords = NotAnArray],
      [base EXCEPT !.keywords = <<>>],
      [base EXCEPT !.keywords = <<NotAString>>]}

RoutingConfigs ==
  {RoutingJson(json, <<>>) : json \in {"unset", "invalid", "value"}}
  \cup UNION {{JsonArray(t) : t \in {u \in [1..n -> UNION {ParseEntries(i) : i \in 1..n}] :
                                        \A i \in 1..n : u[i] \in ParseEntries(i)}} :
               n \in 0..MaxRoutes}

InitParse ==
  /\ env \in {[Env(<<"g">>, dflt, <<>>, Undefined, Undefined, Undefined)
                 EXCEPT !.CLICKUP_MEETING_ROUTING_JSON = config] :
                dflt \in {Undefined, <<"D">>}, config \in RoutingConfigs}
  /\ payload = Payload(<<"a">>, Undefined, <<>>)
  /\ Start

SpecParse == InitParse /\ [][Receive]_vars

----------------------------------------------------------------------------
(* Progress: the handler under the assumption that every HTTP exchange ends *)

\* events and settings that lead to each of the four responses: an empty
\* payload, no destination, a missing token, and a full run with tasks
InitLive ==
  /\ env \in {Env(token, Undefined, <<ConfigRoute>>, Undefined, <<"G">>, <<"k">>) :
                token \in {Undefined, <<"g">>}}
  /\ payload \in Payloads
  /\ Start

\* Every await of the handler is on an HTTP exchange; once the exchange ends
\* (answer or failure) the continuation runs, so a step that is possible is
\* eventually taken
FairSpec == InitLive /\ [][Next]_vars /\ WF_vars(Next)

----------------------------------------------------------------------------
(* The parent task's name and description over events with time fields and  *)
(* over description limits: the handler up to the request for the parent    *)

TextEnv == ConfigEnv([ConfigRoute EXCEPT !.listId = <<"L">>])

\* recording and scheduled times present, absent, unreadable, in and out of
\* order: 30 minutes of recording, 61 minutes scheduled, 71 minutes from the
\* start of the recording to the scheduled end
TimedPayloads ==
  {[Payload(<<"a">>, Undefined, <<Entry(<<"x">>)>>) EXCEPT
      !.recording_start_time = rs, !.recording_end_time = re,
      !.scheduled_start_time = ss, !.scheduled_end_time = se] :
     rs \in {NoTime, BadTime, Time(0)},
     re \in {NoTime, Time(0), Time(1800)},
     ss \in {NoTime, Time(600)},
     se \in {NoTime, BadTime, Time(4260)}}

\* limits unset, not numeric, zero, negative, below the length of the
\* truncation marker, equal to it, between it and the length of the
\* description, and above that length
DescriptionLimits ==
  {Undefined, <<"a", "b", "c">>, <<"0">>, <<"-", "5">>, <<"1">>, <<"1", "0">>,
   <<"3", "8">>, <<"1", "0", "0">>, <<"1", "8", "0">>, <<"9", "9", "9">>}

InitTexts ==
  /\ \/ /\ env = TextEnv
        /\ payload \in TimedPayloads
     \/ /\ env \in {[TextEnv EXCEPT !.CLICKUP_MAIN_TASK_DESCRIPTION_MAX_CHARS = m] :
                      m \in DescriptionLimits}
        /\ payload \in {Payload(<<"a">>, Undefined, <<Entry(<<"x">>)>>),
                        Payload(Undefined, Undefined,
                                <<Entry(<<" ", "x", "y", " ">>), Entry(<<"z">>)>>)}
  /\ Start

NextTexts ==
  \/ Receive
  \/ CommentReturns
  \/ ExtractReturns

SpecTexts == InitTexts /\ [][NextTexts]_vars

----------------------------------------------------------------------------
(* Properties *)

CallsOf(kind) == {i \in 1..Len(calls) : calls[i].kind = kind}

TaskCalls == CallsOf("parent") \cup CallsOf("subtask")

\* how a ClickUp call can fail: no token, no usable response, a status
\* outside 2xx
ClickUpFailed == {"no_token", "reject", "non2xx"}

\* a 2xx answer
ClickUpAccepted == {"id", "noid", "null"}

ExtractionFailed == {"reject", "non2xx", "empty", "badjson"}

Responded(status) == pc = "responded" /\ response.status = status

\* C1: when the comment post fails (no token, transport error, non-2xx), the
\* request has ended with 500 / success=false and the only call ever made for
\* the event is that comment call: no extraction, parent or subtask call.
C1_CommentFailureAborts ==
  (\E i \in CallsOf("comment") : calls[i].outcome \in ClickUpFailed)
  => /\ Responded(500)
     /\ ~response.success
     /\ CallsOf("extract") = {}
     /\ TaskCalls = {}

C1_Witness ==
  /\ Responded(500)
  /\ resolvedRoute # NoRoute
  /\ \E i \in CallsOf("comment") : calls[i].outcome = "non2xx"

\* C2 as claimed: once the comment call was answered 2xx, the request ends
\* with 200 / success=true / postedToClickUp=true and never with 500.
C2_CommentSuccessEnds200 ==
  (/\ pc = "responded"
   /\ \E i \in CallsOf("comment") : calls[i].outcome \in ClickUpAccepted)
  => /\ response.status = 200
     /\ response.success
     /\ response.postedToClickUp

\* the task-creation stage is reached with creation enabled and a list id
TaskCreationApplies ==
  /\ ~extracted.isNull
  /\ isTaskCreationEnabledForRoute(resolvedRoute, env)
  /\ Truthy(resolveTaskCreationListId(resolvedRoute, env))

\* C3: when extraction produced a result, task creation is enabled and a list
\* id resolves, exactly one parent call is made; never more than one; every
\* subtask call comes after a parent call that returned an id; and when the
\* parent call failed or returned no id there is no subtask call and the
\* request has ended with 200, createdMainTaskId = none, zero created subtasks.
C3_OneParentBeforeSubtasks ==
  /\ Cardinality(CallsOf("parent")) <= 1
  /\ TaskCreationApplies => Cardinality(CallsOf("parent")) = 1
  /\ \A j \in CallsOf("subtask") :
       \E i \in CallsOf("parent") : i < j /\ calls[i].outcome = "id"
  /\ \A i \in CallsOf("parent") :
       calls[i].outcome \in ClickUpFailed \cup {"noid", "null"}
       => /\ CallsOf("subtask") = {}
          /\ Responded(200)
          /\ response.createdMainTaskId = Null
          /\ response.createdSubtasksCount = 0

C3_Witness ==
  /\ Responded(200)
  /\ TaskCreationApplies
  /\ Len(extracted.tasks) > 0
  /\ \E i \in CallsOf("parent") : calls[i].outcome = "noid"

\* the items of the subtask calls, in the order the calls were made
SubtaskItems ==
  LET IsSubtask(call) == call.kind = "subtask"
      Item(call) == call.item
  IN Map(SelectSeq(calls, IsSubtask), Item)

\* C4: the subtask calls are made for items 1, 2, ... in extraction order; once
\* the request has ended after a parent task with an id, there is one subtask
\* call per extracted item whatever failed, eligibleSubtasksCount is the item
\* count N, createdSubtasksCount is the number of subtask calls that did not
\* fail, and createdSubtasksCount <= eligibleSubtasksCount.
C4_OneSubtaskCallPerItem ==
  /\ SubtaskItems = [k \in 1..Len(SubtaskItems) |-> k]
  /\ (pc = "responded" /\ Truthy(mainTaskId))
     => /\ Len(SubtaskItems) = Len(extracted.tasks)
        /\ response.eligibleSubtasksCount = Len(extracted.tasks)
        /\ response.createdSubtasksCount =
             Cardinality({i \in CallsOf("subtask") :
                            calls[i].outcome \notin ClickUpFailed})
        /\ response.createdSubtasksCount <= response.eligibleSubtasksCount

C4_Witness ==
  /\ pc = "responded"
  /\ Truthy(mainTaskId)
  /\ Len(extracted.tasks) = MaxTasks
  /\ \E i, j \in CallsOf("subtask") :
       /\ i < j
       /\ calls[i].outcome = "reject"
       /\ calls[j].outcome = "id"

\* C5: when the extraction call failed or was skipped, no parent or subtask
\* call is ever made, and the 200 result reports extractedTasksCount = 0,
\* createdMainTaskId = none, eligibleSubtasksCount = 0, createdSubtasksCount = 0.
C5_NoExtractionNoTasks ==
  /\ (\E i \in CallsOf("extract") : calls[i].outcome \in ExtractionFailed)
     => TaskCalls = {}
  /\ (/\ Responded(200)
      /\ \A i \in CallsOf("extract") : calls[i].outcome \in ExtractionFailed)
     => /\ TaskCalls = {}
        /\ response.extractedTasksCount = 0
        /\ response.createdMainTaskId = Null
        /\ response.eligibleSubtasksCount = 0
        /\ response.createdSubtasksCount = 0

C5_Witness ==
  /\ Responded(200)
  /\ isTaskCreationEnabledForRoute(resolvedRoute, env)
  /\ Truthy(resolveTaskCreationListId(resolvedRoute, env))
  /\ \E i \in CallsOf("extract") : calls[i].outcome = "empty"

\* no parsed route has a keyword whose normalized text is contained in a
\* normalized matching field of the event
NoRouteScores ==
  LET routes == parseMeetingRoutes(env.CLICKUP_MEETING_ROUTING_JSON)
      fields == MatchingFields(payload)
  IN \A r \in 1..Len(routes) : \A k \in 1..Len(routes[r].keywords) :
       \A f \in 1..Len(fields) : ~Includes(fields[f], normalize(routes[r].keywords[k]))

DefaultConfigured == Truthy(OptTrim(env.CLICKUP_DEFAULT_TASK_ID))

\* C6: for a non-empty payload with no scoring route and no default id, the
\* handler's first step ends the request with 202 / success=true /
\* postedToClickUp=false and no call at all is made.
C6_UnmatchedIsAccepted ==
  (pc # "received" /\ ~payload.isEmpty /\ NoRouteScores /\ ~DefaultConfigured)
  => /\ Responded(202)
     /\ response.success
     /\ ~response.postedToClickUp
     /\ resolvedRoute = NoRoute
     /\ calls = <<>>

C6_Witness ==
  /\ Responded(202)
  /\ Len(parseMeetingRoutes(env.CLICKUP_MEETING_ROUTING_JSON)) > 0
  /\ Truthy(env.CLICKUP_API_TOKEN)

\* the place of a call in the order the handler prescribes
Rank(call) ==
  CASE call.kind = "comment" -> 1
    [] call.kind = "extract" -> 2
    [] call.kind = "parent" -> 3
    [] OTHER -> 3 + call.item

C7_Sequential ==
  /\ Cardinality(inflight) <= 1
  /\ inflight = {i \in 1..Len(calls) : calls[i].status = "pending"}
  /\ \A i \in 1..(Len(calls) - 1) : calls[i].status # "pending"
  /\ \A i, j \in 1..Len(calls) : i < j => Rank(calls[i]) < Rank(calls[j])
  /\ pc = "responded" => inflight = {}

\* C7: at most one call is outstanding; a call is issued only when every
\* earlier call has completed; the calls are made in the order comment,
\* extraction, parent, subtask 1, subtask 2, ...; no call is outstanding when
\* the response is sent and none is issued after it.
C7_CallsAreSequential ==
  /\ []C7_Sequential
  /\ [][pc = "responded" => calls' = calls /\ inflight' = inflight]_vars

C7_Witness ==
  /\ pc = "awaitSubtask"
  /\ \E i \in CallsOf("subtask") : calls[i].item = MaxTasks /\ calls[i].status = "pending"

\* the number of keywords of a route whose normalized text is contained in a
\* normalized matching field of the event
KeywordHits(route) ==
  LET fields == MatchingFields(payload)
  IN Cardinality({k \in 1..Len(route.keywords) :
                    \E f \in 1..Len(fields) :
                      Includes(fields[f], normalize(route.keywords[k]))})

\* the resolved route is an entry of the table (the default route has no keyword)
ConfiguredRouteResolved == resolvedRoute # NoRoute /\ resolvedRoute.keywords # <<>>

\* C8: the resolved route is a configured one iff some configured route has a
\* normalized keyword contained in a normalized matching field; it is then the
\* first-listed route among those with the highest number of such keywords.
C8_BestRouteFirstListedWins ==
  LET routes == parseMeetingRoutes(env.CLICKUP_MEETING_ROUTING_JSON)
      Best(w) ==
        /\ \A r \in 1..Len(routes) : KeywordHits(routes[r]) <= KeywordHits(routes[w])
        /\ \A r \in 1..(w - 1) : KeywordHits(routes[r]) < KeywordHits(routes[w])
  IN pc # "received"
     => /\ ConfiguredRouteResolved <=> ~NoRouteScores
        /\ ConfiguredRouteResolved
           => \E w \in 1..Len(routes) :
                /\ Best(w)
                /\ resolvedRoute.name = routes[w].name
                /\ resolvedRoute.commentTaskId = routes[w].commentTaskId
                /\ resolvedRoute.keywords = routes[w].keywords

C8_Witness ==
  LET routes == parseMeetingRoutes(env.CLICKUP_MEETING_ROUTING_JSON)
  IN /\ pc # "received"
     /\ Len(routes) = MaxRoutes
     /\ \A r \in 1..Len(routes) : KeywordHits(routes[r]) = 2
     /\ resolvedRoute.name = routes[1].name

\* C9: with no scoring route and a default id configured (non-blank), the
\* resolved route is named "default", targets the default id (trimmed) and has
\* no matched keyword; the default route is never the result when a configured
\* route scores.
C9_DefaultRouteOnlyWithoutMatch ==
  pc # "received"
  => /\ (NoRouteScores /\ DefaultConfigured)
        => /\ resolvedRoute.name = <<"d", "e", "f", "a", "u", "l", "t">>
           /\ resolvedRoute.commentTaskId = Trim(env.CLICKUP_DEFAULT_TASK_ID)
           /\ resolvedRoute.matchedKeywords = <<>>
     /\ resolvedRoute.name = <<"d", "e", "f", "a", "u", "l", "t">> => NoRouteScores

C9_Witness ==
  /\ pc = "awaitComment"
  /\ resolvedRoute.name = <<"d", "e", "f", "a", "u", "l", "t">>
  /\ resolvedRoute.commentTaskId = <<"D">>
  /\ env.CLICKUP_DEFAULT_TASK_ID = <<" ", "D", " ">>
  /\ Len(parseMeetingRoutes(env.CLICKUP_MEETING_ROUTING_JSON)) = MaxRoutes

\* C10 as claimed: every comment and task-creation call authorizes with the
\* route's override token when the route has one, else with the global token,
\* and fails for want of a token only when neither is present.
C10_RouteTokenElseGlobal ==
  \A i \in CallsOf("comment") \cup TaskCalls :
    LET expected == Or(resolvedRoute.clickupApiToken, env.CLICKUP_API_TOKEN)
    IN /\ calls[i].auth = expected
       /\ calls[i].outcome = "no_token" <=> ~Truthy(expected)

----------------------------------------------------------------------------
(* Task creation: selection of the items, list, switch, threshold, status *)

EffectiveThreshold == resolveConfidenceThresholdForRoute(resolvedRoute, env)

\* the subtask loop ran to its end
SubtaskLoopDone == pc = "responded" /\ response.status = 200 /\ mainTaskId # Null

\* C11: once the parent task exists, every extracted item is offered as a
\* subtask whatever its confidence and whatever the effective threshold: the
\* subtask calls are exactly one per extracted item, each for that item, and the
\* reported eligibleSubtasksCount is the number of extracted items.
C11_EveryItemOffered ==
  /\ \A i \in CallsOf("subtask") :
       /\ calls[i].item \in 1..Len(extracted.tasks)
       /\ calls[i].confidence = extracted.tasks[calls[i].item].confidence
  /\ SubtaskLoopDone =>
       /\ {calls[i].item : i \in CallsOf("subtask")} = 1..Len(extracted.tasks)
       /\ response.eligibleSubtasksCount = Len(extracted.tasks)
       /\ response.eligibleSubtasksCount = response.extractedTasksCount

\* an item at or below the effective threshold and one above it were offered
C11_Witness ==
  /\ SubtaskLoopDone
  /\ response.eligibleSubtasksCount = 2
  /\ \E i \in CallsOf("subtask") : calls[i].confidence.v <= EffectiveThreshold.v
  /\ \E i \in CallsOf("subtask") : calls[i].confidence.v > EffectiveThreshold.v

\* C12: a subtask is created only for an item whose confidence is above the
\* effective threshold of the route.
C12_SubtasksOnlyAboveThreshold ==
  \A i \in CallsOf("subtask") :
    calls[i].outcome \in ClickUpAccepted =>
      calls[i].confidence.v > EffectiveThreshold.v

\* a setting that is there: a string with something other than spaces in it
NonBlank(v) == v # Undefined /\ v # Null /\ \E i \in 1..Len(v) : v[i] # " "

\* the first of the three list settings that is present, by the order of the
\* claim; the route's own listId is taken as it stands, the other two trimmed
ListByPrecedence ==
  LET target == resolvedRoute.taskRouting.targetListId
      global == env.CLICKUP_TASK_CREATION_LIST_ID
  IN IF NonBlank(target) THEN Trim(target)
     ELSE IF resolvedRoute.listId \notin {Undefined, <<>>} THEN resolvedRoute.listId
     ELSE IF NonBlank(global) THEN Trim(global)
     ELSE Null

\* createMeetingTasksInClickUp ran: extraction produced a result and the
\* handler is past the step that starts task creation
TaskStageEntered == ~extracted.isNull /\ pc \in {"awaitParent", "awaitSubtask", "responded"}

TaskCreationOn ==
  LET routeFlag == resolvedRoute.taskRouting.enabled
      flag == env.CLICKUP_ENABLE_TASK_CREATION
      globalOff == /\ flag \notin {Undefined, <<>>}
                   /\ ToLowerCase(Trim(flag)) \in
                        {<<"f", "a", "l", "s", "e">>, <<"0">>, <<"n", "o">>,
                         <<"o", "f", "f">>}
  IN routeFlag = "true" \/ (routeFlag = "undefined" /\ ~globalOff)

\* C13: with task creation enabled, the tasks go to the route's
\* taskRouting.targetListId if present, else the route's listId, else the
\* global list id: every task call names that list. With none of the three no
\* task call is made, the result has no main task and zero eligible and
\* created subtasks, and the request ends with 200.
C13_TargetListPrecedence ==
  (TaskStageEntered /\ TaskCreationOn) =>
    IF ListByPrecedence = Null
    THEN /\ TaskCalls = {}
         /\ Responded(200)
         /\ response.createdMainTaskId = Null
         /\ response.eligibleSubtasksCount = 0
         /\ response.createdSubtasksCount = 0
    ELSE /\ CallsOf("parent") # {}
         /\ \A i \in TaskCalls : calls[i].listId = ListByPrecedence

\* the target list wins over the route's and the global list, and a subtask
\* was sent there
C13_Witness ==
  /\ TaskStageEntered
  /\ Truthy(resolvedRoute.listId)
  /\ Truthy(env.CLICKUP_TASK_CREATION_LIST_ID)
  /\ \E i \in CallsOf("subtask") :
       calls[i].listId = Trim(resolvedRoute.taskRouting.targetListId)

\* C14: task creation is enabled for a route exactly when the route-level
\* boolean is true, or the route has none and the global flag, lower-cased and
\* trimmed, is none of false, 0, no, off (unset or empty counts as enabled).
\* When it is disabled no task call is made and the result is zero; when it is
\* enabled and a list is configured the parent call is made.
C14_TaskCreationSwitch ==
  TaskStageEntered =>
    IF TaskCreationOn
    THEN ListByPrecedence # Null => CallsOf("parent") # {}
    ELSE /\ TaskCalls = {}
         /\ Responded(200)
         /\ response.createdMainTaskId = Null
         /\ response.eligibleSubtasksCount = 0
         /\ response.createdSubtasksCount = 0

\* the global flag, in capitals and padded, switched task creation off for a
\* route without a boolean of its own although items were extracted
C14_Witness ==
  /\ Responded(200)
  /\ env.CLICKUP_ENABLE_TASK_CREATION = <<" ", "O", "F", "F">>
  /\ resolvedRoute.taskRouting.enabled = "undefined"
  /\ response.extractedTasksCount > 0
  /\ TaskCalls = {}

\* 0 <= n <= 1
InUnitInterval(n) == n.kind = "number" /\ 0 <= n.v /\ n.v <= 10

\* C15: the effective threshold the handler resolves lies in [0, 1] for every
\* route-level value (absent, out of range, not finite) and every global
\* string (unset, empty, not numeric, out of range), and a finite route-level
\* value, brought into [0, 1], is the result whatever the global string says.
C15_ThresholdInUnitInterval ==
  summaryLog.logged =>
    LET routeThreshold == resolvedRoute.taskRouting.confidenceThreshold
        threshold == summaryLog.confidenceThreshold
    IN /\ InUnitInterval(threshold)
       /\ routeThreshold.kind = "number" =>
            threshold.v = (IF routeThreshold.v < 0 THEN 0
                           ELSE IF routeThreshold.v > 10 THEN 10
                           ELSE routeThreshold.v)

\* a route-level 2.5 against a global 0.7 was resolved
C15_Witness ==
  /\ summaryLog.logged
  /\ resolvedRoute.taskRouting.confidenceThreshold = Num(25)
  /\ env.GROQ_TASK_CONFIDENCE_THRESHOLD = <<"0", ".", "7">>
  /\ summaryLog.confidenceThreshold = Num(10)

\* C18: every task call carries the route's non-blank taskRouting.defaultStatus,
\* else the global default status, else "backlog", and for every configuration,
\* a blank global value included, that status is a non-empty string.
C18_StatusNeverEmpty ==
  LET routeStatus == resolvedRoute.taskRouting.defaultStatus
      global == env.CLICKUP_TASK_DEFAULT_STATUS
      expected == IF NonBlank(routeStatus) THEN Trim(routeStatus)
                  ELSE IF NonBlank(global) THEN Trim(global)
                  ELSE <<"b", "a", "c", "k", "l", "o", "g">>
  IN \A i \in TaskCalls :
       /\ calls[i].taskStatus = expected
       /\ calls[i].taskStatus # <<>>

----------------------------------------------------------------------------
(* Extraction result *)

\* C16: every item of the extraction result has a confidence in [0, 1],
\* whatever number the response carried.
C16_ConfidenceInUnitInterval ==
  \A i \in 1..Len(extracted.tasks) : InUnitInterval(extracted.tasks[i].confidence)

----------------------------------------------------------------------------
(* Route table *)

\* C17: after normalization no keyword of a parsed route and no matched
\* keyword of the resolved route is the empty string: an empty or blank
\* keyword never counts as a match.
C17_NoEmptyKeyword ==
  LET meetingRoutes == parseMeetingRoutes(env.CLICKUP_MEETING_ROUTING_JSON)
  IN /\ \A r \in 1..Len(meetingRoutes) :
          \A k \in 1..Len(meetingRoutes[r].keywords) :
            normalize(meetingRoutes[r].keywords[k]) # <<>>
     /\ \A k \in 1..Len(resolvedRoute.matchedKeywords) :
          resolvedRoute.matchedKeywords[k] # <<>>

----------------------------------------------------------------------------
(* Validation of the inbound payload *)

\* C19: a payload that is an object without keys is answered with 400 before
\* any route is resolved, and no comment, extraction or task call is made.
C19_EmptyPayloadRejected ==
  (payload.isEmpty /\ pc # "received") =>
    /\ Responded(400)
    /\ resolvedRoute = NoRoute
    /\ calls = <<>>

\* an empty payload was rejected although a destination and a token were
\* configured
C19_Witness ==
  /\ payload.isEmpty
  /\ Responded(400)
  /\ Truthy(env.CLICKUP_DEFAULT_TASK_ID)
  /\ Truthy(env.CLICKUP_API_TOKEN)

\* the comment-target id of an entry: commentTaskId when it is a string, else
\* the alias taskId
CommentTargetOf(entry) ==
  IF entry.commentTaskId # Undefined THEN entry.commentTaskId ELSE entry.taskId

\* the entry lacks a name, a comment-target id or a string keyword
LacksRequired(entry) ==
  \/ ~entry.isObject
  \/ ~NonBlank(entry.name)
  \/ ~NonBlank(CommentTargetOf(entry))
  \/ entry.keywords = NotAnArray
  \/ \A k \in 1..Len(entry.keywords) : entry.keywords[k] = NotAString

\* C20: parsing the route table never fails the request. A configuration that
\* is unset, no valid JSON or no array gives the empty table; of a valid array
\* the entries lacking a name, a comment-target id (commentTaskId or the alias
\* taskId) or a string keyword are dropped and the others kept in their order.
C20_RouteTableParsing ==
  LET rawRoutes == env.CLICKUP_MEETING_ROUTING_JSON
      table == parseMeetingRoutes(rawRoutes)
      Complete(entry) == ~LacksRequired(entry)
      kept == SelectSeq(rawRoutes.entries, Complete)
  IN /\ rawRoutes.json # "array" => table = <<>>
     /\ rawRoutes.json = "array" =>
          /\ Len(table) = Len(kept)
          /\ \A i \in 1..Len(table) :
               /\ table[i].name = Trim(kept[i].name)
               /\ table[i].commentTaskId = Trim(CommentTargetOf(kept[i]))
     /\ pc # "received" =>
          /\ ~Responded(500) \/ ~Truthy(env.CLICKUP_API_TOKEN)
          /\ (table = <<>> /\ ~Truthy(OptTrim(env.CLICKUP_DEFAULT_TASK_ID)))
               => Responded(202)
          /\ resolvedRoute.name \in
               {Undefined, <<"d", "e", "f", "a", "u", "l", "t">>}
               \cup {table[i].name : i \in 1..Len(table)}

\* of two entries the first was dropped and the second, whose target stands
\* under the alias, was kept and resolved
C20_Witness ==
  LET rawRoutes == env.CLICKUP_MEETING_ROUTING_JSON
      table == parseMeetingRoutes(rawRoutes)
  IN /\ pc = "awaitComment"
     /\ rawRoutes.json = "array"
     /\ Len(rawRoutes.entries) = 2
     /\ LacksRequired(rawRoutes.entries[1])
     /\ rawRoutes.entries[2].commentTaskId = Undefined
     /\ Len(table) = 1
     /\ resolvedRoute.name = table[1].name
     /\ calls[1].kind = "comment"

----------------------------------------------------------------------------
(* Responses *)

ResponseStatuses == {400, 202, 200, 500}

\* C21: if every external call eventually returns or fails, every event gets
\* exactly one response: processing reaches its end, the response sent there
\* is 400 (exactly for an empty payload), 202 (no route, nothing called), 200
\* (the comment was posted) or 500, nothing is sent before the end, and what
\* was sent never changes.
C21_ExactlyOneResponse ==
  /\ <>(pc = "responded")
  /\ [](pc # "responded" => response = NoResponse)
  /\ [](pc = "responded" =>
          /\ response.status \in ResponseStatuses
          /\ response.status = 400 <=> payload.isEmpty
          /\ response.status = 202 => calls = <<>>
          /\ response.status = 200 =>
               \E i \in CallsOf("comment") : calls[i].outcome \in ClickUpAccepted)
  /\ [][pc = "responded" => response' = response /\ pc' = pc]_vars

\* the handler's outer catch answered after a failed comment post
C21_Witness ==
  /\ Responded(500)
  /\ \E i \in CallsOf("comment") : calls[i].outcome \in ClickUpFailed

\* C22: a 200 result describes what happened: extractedTasksCount is the
\* number of items the extraction returned (0 when it failed or was skipped),
\* createdMainTaskId is there exactly when a parent call was answered 2xx with
\* an id (and is that id), createdSubtasksCount is the number of subtask calls
\* that were answered 2xx, eligibleSubtasksCount the number of subtask calls
\* made.
C22_ResultDescribesRun ==
  Responded(200) =>
    /\ response.extractedTasksCount =
         (IF extracted.isNull THEN 0 ELSE Len(extracted.tasks))
    /\ CallsOf("extract") = {} => response.extractedTasksCount = 0
    /\ \A i \in CallsOf("extract") :
         calls[i].outcome \in ExtractionFailed => response.extractedTasksCount = 0
    /\ response.createdMainTaskId # Null <=>
         \E i \in CallsOf("parent") : calls[i].outcome = "id"
    /\ \A i \in CallsOf("parent") :
         calls[i].outcome = "id" => response.createdMainTaskId = calls[i].id
    /\ response.createdSubtasksCount =
         Cardinality({i \in CallsOf("subtask") : calls[i].outcome \in ClickUpAccepted})
    /\ response.eligibleSubtasksCount = Cardinality(CallsOf("subtask"))

\* of two subtask calls one was answered 2xx and one failed
C22_Witness ==
  /\ Responded(200)
  /\ response.createdMainTaskId # Null
  /\ response.eligibleSubtasksCount = 2
  /\ response.createdSubtasksCount = 1
  /\ \E i \in CallsOf("subtask") : calls[i].outcome = "non2xx"

\* C23: a task-creation call answered 2xx without a task id counts as failed:
\* after such a parent call no subtask call is made and no main task is
\* reported, and such a subtask call is not counted in createdSubtasksCount.
C23_NoIdIsAnError ==
  /\ \A i \in CallsOf("parent") :
       calls[i].outcome \in {"noid", "null"} =>
         /\ CallsOf("subtask") = {}
         /\ pc = "responded" /\ response.createdMainTaskId = Null
  /\ Responded(200) =>
       response.createdSubtasksCount =
         Cardinality({i \in CallsOf("subtask") : calls[i].outcome = "id"})

----------------------------------------------------------------------------
(* Extraction call *)

\* no extraction credential, or no transcript entries to make a text from
NothingToExtract ==
  \/ env.GROQ_API_KEY = Undefined
  \/ \A i \in 1..Len(env.GROQ_API_KEY) : env.GROQ_API_KEY[i] = " "
  \/ Len(payload.transcript) = 0

\* the handler got past the comment post to the extraction step
ExtractionStepReached ==
  \E i \in CallsOf("comment") : calls[i].outcome \in {"id", "noid"}

\* C24: the extraction service is called at most once per event and only
\* after the comment was posted; it is not called at all without an extraction
\* credential or without transcript text, and then the extraction step is no
\* error: the request ends with 200.
C24_ExtractionAtMostOnce ==
  /\ Cardinality(CallsOf("extract")) <= 1
  /\ CallsOf("extract") # {} => ExtractionStepReached
  /\ NothingToExtract =>
       /\ CallsOf("extract") = {}
       /\ ExtractionStepReached =>
            /\ Responded(200)
            /\ response.extractedTasksCount = 0
            /\ TaskCalls = {}
  /\ (ExtractionStepReached /\ ~NothingToExtract) => CallsOf("extract") # {}

\* a credential is configured but the event has no transcript: skipped, 200
C24_Witness ==
  /\ Responded(200)
  /\ Truthy(env.GROQ_API_KEY)
  /\ Len(payload.transcript) = 0
  /\ CallsOf("extract") = {}

----------------------------------------------------------------------------
(* Parent task texts *)

\* C25: the duration in the parent task's name is that of the recording pair
\* when both recording times are present and readable, otherwise that of the
\* scheduled pair, never a start of one pair with an end of the other; a
\* missing or non-positive duration reads N/A.
C25_DurationFromOnePair ==
  LET rs == payload.recording_start_time
      re == payload.recording_end_time
      ss == payload.scheduled_start_time
      se == payload.scheduled_end_time
      Text(from, to) ==
        IF from.kind = "date" /\ to.kind = "date" /\ to.time - from.time > 0
        THEN DurationText(to.time - from.time)
        ELSE NotAvailable
      expected == IF rs.kind = "date" /\ re.kind = "date"
                  THEN Text(rs, re) ELSE Text(ss, se)
  IN \A i \in CallsOf("parent") :
       calls[i].name = MainMeetingTaskName(formatMeetingDate(payload),
                                           MeetingTitle(payload), expected)

\* C26: for every positive limit M, smaller than the truncation marker
\* included, the description sent for the parent task has at most M
\* characters; when the full description is longer than M the description
\* sent ends with the marker, otherwise it is the full description.
C26_DescriptionWithinLimit ==
  \A i \in CallsOf("parent") :
    LET maxChars == Number(Or(env.CLICKUP_MAIN_TASK_DESCRIPTION_MAX_CHARS,
                              <<"5", "0", "0", "0", "0">>))
        full == MainTaskDescriptionText(payload, Len(extracted.tasks))
        sent == calls[i].description
    IN (maxChars.kind = "number" /\ maxChars.v > 0) =>
         /\ 10 * Len(sent) <= maxChars.v
         /\ IF 10 * Len(full) > maxChars.v
            THEN /\ Len(sent) >= Len(TruncationMarker)
                 /\ SubSeq(sent, Len(sent) - Len(TruncationMarker) + 1, Len(sent))
                      = TruncationMarker
            ELSE sent = full

----------------------------------------------------------------------------
(* Parsing of the extraction response *)

\* C27: a response whose content parses to an object with a tasks array is
\* never rejected as a whole because of one element: every element, null and
\* non-objects included, has its bad fields replaced by the defaults, and
\* exactly the elements with an empty task text are dropped.
C27_NoItemRejectsResponse ==
  LET Defaulted(item) == ParseTaskItem(IF item.isNull THEN PrimitiveItem ELSE item)
      HasTask(item) == item.task # <<>>
  IN \A i \in CallsOf("extract") :
       calls[i].outcome = "tasks" =>
         /\ calls[i].status = "ok"
         /\ ~extracted.isNull
         /\ extracted.tasks = Filter(Map(calls[i].content, Defaulted), HasTask)

----------------------------------------------------------------------------
(* Route score *)

\* C28: a route's score is the number of different normalized keywords found
\* in a matching field, so a keyword configured twice, or two keywords with
\* the same normalized text, count once: the route chosen is the first one of
\* the highest such score.
C28_RepeatedKeywordCountsOnce ==
  LET meetingRoutes == parseMeetingRoutes(env.CLICKUP_MEETING_ROUTING_JSON)
      Matched(i) == MatchedKeywords(meetingRoutes[i], MatchingFields(payload))
      Distinct(i) == Cardinality({Matched(i)[k] : k \in 1..Len(Matched(i))})
      first == {i \in 1..Len(meetingRoutes) :
                  /\ Distinct(i) > 0
                  /\ \A j \in 1..Len(meetingRoutes) : Distinct(j) <= Distinct(i)
                  /\ \A j \in 1..(i - 1) : Distinct(j) < Distinct(i)}
  IN (pc # "received" /\ ~IsEmptyPayload(payload)) =>
       \A i \in first : resolvedRoute.name = meetingRoutes[i].name

====
